---- MODULE Spec2Model ----
(***************************************************************************)
(* State-machine model of dlib/svm/structural_svm_graph_labeling_problem.h *)
(*                                                                         *)
(* The dataset (samples, labels) is supplied by the caller and may be      *)
(* malformed.  is_graph_labeling_problem validates it, the constructor of  *)
(* structural_svm_graph_labeling_problem asserts validity and infers the   *)
(* node/edge dimensions, and afterwards get_truth_joint_feature_vector and *)
(* separation_oracle are called by the trainer, possibly from several      *)
(* worker threads.                                                         *)
(*                                                                         *)
(* A dense vector (dlib::matrix column vector) is a sequence of integers.  *)
(* A sparse vector is a sequence of <<index, value>> pairs with 0-based    *)
(* indices, repeated indices allowed.  Node indices are 0-based as in the  *)
(* source; node i's data is samp.data[i+1].                                *)
(***************************************************************************)
EXTENDS Integers, Sequences, FiniteSets, TLC

\* ---------------------------------------------------------------- bounds

\* Graphs of the "rich" family (every kind of malformed vector) have at most
\* this many nodes in total over the dataset.
MaxNodesRich == 2
\* Graphs of the "plain" family (few vector shapes) have at most this many.
MaxNodes == 3
\* At most this many samples in a dataset.
MaxSamples == 2
\* At most this many edges in one sample graph of the plain family.
MaxEdges == 2
\* At most this many edges in one sample graph of the rich family.
MaxEdgesRich == 1
\* Weight-vector entries range over -MaxW..MaxW.
MaxW == 1
\* Node labels range over 0..MaxLabel (a node_label is a small integer).
MaxLabel == 1

\* ------------------------------------------------------- small utilities

SetMin(S) == CHOOSE x \in S : \A y \in S : x <= y
SetMax(S) == CHOOSE x \in S : \A y \in S : x >= y

RECURSIVE SumTo(_, _)
\* f[1] + ... + f[k]
SumTo(f, k) == IF k = 0 THEN 0 ELSE f[k] + SumTo(f, k - 1)

\* Sum of the entries of the sequence f.
SumSeq(f) == SumTo(f, Len(f))

\* ------------------------------------------------- vectors (dlib helpers)

\* v.size(): rows of a column matrix, or number of stored pairs.
size(v) == Len(v)

\* dlib::min: least entry of a matrix; for a sparse vector the least stored
\* value, or 0 when no stored value is below 0.
min(v, ismat) ==
    IF ismat THEN SetMin({v[k] : k \in 1..Len(v)})
    ELSE SetMin({0} \cup {v[k][2] : k \in 1..Len(v)})

\* dlib::max_index_plus_one: rows of a matrix; one plus the largest stored
\* index of a sparse vector, 0 when it stores nothing.
max_index_plus_one(v, ismat) ==
    IF ismat THEN Len(v)
    ELSE SetMax({0} \cup {v[k][1] + 1 : k \in 1..Len(v)})

\* std::max
std_max(a, b) == IF a >= b THEN a ELSE b

\* rowm(m, range(first, last)): rows first..last (0-based, inclusive) of m.
\* With last < first the block [first, last+1) is empty.
rowm(m, first, last) ==
    IF last < first THEN <<>>
    ELSE [k \in 1..(last - first + 1) |-> m[first + k]]

\* dlib::dot of a dense block with a feature vector.
dot(block, v, ismat) ==
    IF ismat
    THEN SumSeq([k \in 1..Len(v) |-> IF k <= Len(block) THEN block[k] * v[k] ELSE 0])
    ELSE SumSeq([k \in 1..Len(v) |->
                   IF v[k][1] < Len(block) THEN block[v[k][1] + 1] * v[k][2] ELSE 0])

\* ------------------------------------------------ graph container (dlib)

\* A sample graph: n nodes, data[i+1] the vector of node i, and edges, a
\* sequence of [a, b, v] with a <= b the endpoints and v the edge's vector
\* (one vector shared by both endpoints).

number_of_nodes(samp) == samp.n

RECURSIVE NeighborsFrom(_, _, _)
NeighborsFrom(samp, i, k) ==
    IF k > Len(samp.edges) THEN <<>>
    ELSE LET e == samp.edges[k]
             rest == NeighborsFrom(samp, i, k + 1)
         IN  IF e.a = i THEN <<[index |-> e.b, e |-> k]>> \o rest
             ELSE IF e.b = i THEN <<[index |-> e.a, e |-> k]>> \o rest
             ELSE rest

\* node(i)'s neighbour list: entry n (0-based) is nb[n+1], with
\* neighbor(n).index() = nb[n+1].index and edge(n) = samp.edges[nb[n+1].e].v
Neighbors(samp, i) == NeighborsFrom(samp, i, 1)

\* graph_contains_length_one_cycle: some node is its own neighbour.
graph_contains_length_one_cycle(samp) ==
    \E k \in 1..Len(samp.edges) : samp.edges[k].a = samp.edges[k].b

\* is_learning_problem: as many labels as samples, and at least one.
is_learning_problem(samps, labs) ==
    Len(samps) = Len(labs) /\ Len(samps) > 0

\* --------------------------------------------- is_graph_labeling_problem

\* Variant of NodeSizeIsZero: the size test applied to matrices only.
NodeSizeIsZeroMatrixOnly(v, ismat) == ismat /\ size(v) = 0

\* line 80: a node vector of size 0 is rejected (whatever the representation)
NodeSizeIsZero(v, ismat) == size(v) = 0

\* line 91: an edge vector of size 0 is rejected for matrices only
EdgeSizeIsZero(e, ismat) == ismat /\ size(e) = 0

\* Variant of EdgeHasNegative: the sign test left out.
EdgeHasNegativeUnchecked(e, ismat) == FALSE

\* line 93: an edge vector with a negative entry is rejected
EdgeHasNegative(e, ismat) == min(e, ismat) < 0

Rejected == [ok |-> FALSE, node_dims |-> -1, edge_dims |-> -1]

RECURSIVE CheckNeighbors(_, _, _, _, _)
\* lines 89-101: the loop over node j's neighbours, from neighbour n on.
CheckNeighbors(samp, nb, n, st, ismat) ==
    IF n >= Len(nb) THEN st
    ELSE LET e == samp.edges[nb[n + 1].e].v IN
         IF EdgeSizeIsZero(e, ismat) THEN Rejected
         ELSE IF EdgeHasNegative(e, ismat) THEN Rejected
         ELSE LET ed == IF ismat /\ st.edge_dims = -1 THEN size(e) ELSE st.edge_dims IN
              IF ismat /\ size(e) # ed THEN Rejected
              ELSE CheckNeighbors(samp, nb, n + 1, [st EXCEPT !.edge_dims = ed], ismat)

RECURSIVE CheckNodes(_, _, _, _)
\* lines 78-102: the loop over the nodes of one sample, from node j on.
CheckNodes(samp, j, st, ismat) ==
    IF j >= number_of_nodes(samp) THEN st
    ELSE LET d == samp.data[j + 1] IN
         IF NodeSizeIsZero(d, ismat) THEN Rejected
         ELSE LET nd == IF ismat /\ st.node_dims = -1 THEN size(d) ELSE st.node_dims IN
              IF ismat /\ size(d) # nd THEN Rejected
              ELSE LET st2 == CheckNeighbors(samp, Neighbors(samp, j), 0,
                                             [st EXCEPT !.node_dims = nd], ismat)
                   IN  IF ~st2.ok THEN Rejected
                       ELSE CheckNodes(samp, j + 1, st2, ismat)

RECURSIVE CheckSamples(_, _, _, _, _)
\* lines 71-103: the loop over the samples, from sample i on.
CheckSamples(samps, labs, i, st, ismat) ==
    IF i >= Len(samps) THEN st
    ELSE IF number_of_nodes(samps[i + 1]) # Len(labs[i + 1]) THEN Rejected
    ELSE IF graph_contains_length_one_cycle(samps[i + 1]) THEN Rejected
    ELSE LET st2 == CheckNodes(samps[i + 1], 0, st, ismat) IN
         IF ~st2.ok THEN Rejected
         ELSE CheckSamples(samps, labs, i + 1, st2, ismat)

\* lines 61-106
is_graph_labeling_problem(samps, labs, ismat) ==
    IF ~is_learning_problem(samps, labs) THEN FALSE
    ELSE CheckSamples(samps, labs, 0,
                      [ok |-> TRUE, node_dims |-> -1, edge_dims |-> -1], ismat).ok

\* ------------------------------------------------- dimension inference

RECURSIVE DimNeighbors(_, _, _, _, _)
\* lines 180-183
DimNeighbors(samp, nb, n, ed, ismat) ==
    IF n >= Len(nb) THEN ed
    ELSE DimNeighbors(samp, nb, n + 1,
             std_max(ed, max_index_plus_one(samp.edges[nb[n + 1].e].v, ismat)), ismat)

RECURSIVE DimNodesLastWins(_, _, _, _)
\* Variant of DimNodes: the running maxima replaced by plain assignments.
DimNodesLastWins(samp, j, st, ismat) ==
    IF j >= number_of_nodes(samp) THEN st
    ELSE LET nb == Neighbors(samp, j) IN
         DimNodesLastWins(samp, j + 1,
             [node_dims |-> max_index_plus_one(samp.data[j + 1], ismat),
              edge_dims |-> IF Len(nb) = 0 THEN st.edge_dims
                            ELSE max_index_plus_one(samp.edges[nb[Len(nb)].e].v, ismat)],
             ismat)

RECURSIVE DimNodes(_, _, _, _)
\* lines 177-184; st = [node_dims, edge_dims]
DimNodes(samp, j, st, ismat) ==
    IF j >= number_of_nodes(samp) THEN st
    ELSE DimNodes(samp, j + 1,
             [node_dims |-> std_max(st.node_dims,
                                    max_index_plus_one(samp.data[j + 1], ismat)),
              edge_dims |-> DimNeighbors(samp, Neighbors(samp, j), 0,
                                         st.edge_dims, ismat)],
             ismat)

RECURSIVE DimSamples(_, _, _, _)
\* lines 175-185
DimSamples(samps, i, st, ismat) ==
    IF i >= Len(samps) THEN st
    ELSE DimSamples(samps, i + 1, DimNodes(samps[i + 1], 0, st, ismat), ismat)

\* lines 172-185: node_dims = 0; edge_dims = 0; then the scan
InferDimensions(samps, ismat) ==
    DimSamples(samps, 0, [node_dims |-> 0, edge_dims |-> 0], ismat)

\* DLIB_ASSERT(cond, msg): a failed assertion is fatal.
DLIB_ASSERT(cond) == cond

\* ------------------------------------------------ get_joint_feature_vector

\* label[i] != 0
AsBool(l) == l # 0

\* set_rowm(psi, range(first, last)) = rowm(psi, range(first, last)) + sign*v
AccumulateRows(psi, first, last, v, sign) ==
    [r \in 1..Len(psi) |->
        IF first + 1 <= r /\ r <= last + 1 /\ r - first <= Len(v)
        THEN psi[r] + sign * v[r - first]
        ELSE psi[r]]

\* Variant of EdgeCounts: an edge is taken from both of its endpoints.
EdgeCountsFromBothEnds(i, j, label_i, label_j) == label_i # label_j

\* line 240 and line 296: "Don't double count edges.  Also only include the
\* vector if the labels disagree."
EdgeCounts(i, j, label_i, label_j) == i < j /\ label_i # label_j

RECURSIVE DenseNeighbors(_, _, _, _, _, _, _)
\* lines 233-244
DenseNeighbors(sample, label, i, nb, n, psi, edims) ==
    IF n >= Len(nb) THEN psi
    ELSE LET j == nb[n + 1].index
             label_i == AsBool(label[i + 1])
             label_j == AsBool(label[j + 1])
         IN  DenseNeighbors(sample, label, i, nb, n + 1,
                 IF EdgeCounts(i, j, label_i, label_j)
                 THEN AccumulateRows(psi, 0, edims - 1, sample.edges[nb[n + 1].e].v, -1)
                 ELSE psi,
                 edims)

RECURSIVE DenseNodes(_, _, _, _, _)
\* lines 225-245
DenseNodes(sample, label, i, psi, edims) ==
    IF i >= number_of_nodes(sample) THEN psi
    ELSE LET label_i == AsBool(label[i + 1])
             psi1 == IF label_i = TRUE
                     THEN AccumulateRows(psi, edims, Len(psi) - 1, sample.data[i + 1], 1)
                     ELSE psi
         IN  DenseNodes(sample, label, i + 1,
                 DenseNeighbors(sample, label, i, Neighbors(sample, i), 0, psi1, edims),
                 edims)

\* lines 216-246: psi.set_size(get_num_dimensions()); psi = 0; then the loops
get_joint_feature_vector_dense(sample, label, edims, ndims) ==
    DenseNodes(sample, label, 0, [r \in 1..(edims + ndims) |-> 0], edims)

\* lines 248-259
add_to_sparse_vect(psi, vect, offset) ==
    psi \o [k \in 1..Len(vect) |-> <<vect[k][1] + offset, vect[k][2]>>]

\* Variant of subtract_from_sparse_vect: the values appended unnegated.
subtract_from_sparse_vect_unnegated(psi, vect) ==
    psi \o [k \in 1..Len(vect) |-> <<vect[k][1], vect[k][2]>>]

\* lines 261-271
subtract_from_sparse_vect(psi, vect) ==
    psi \o [k \in 1..Len(vect) |-> <<vect[k][1], -vect[k][2]>>]

RECURSIVE SparseNeighbors(_, _, _, _, _, _)
\* lines 289-300
SparseNeighbors(sample, label, i, nb, n, psi) ==
    IF n >= Len(nb) THEN psi
    ELSE LET j == nb[n + 1].index
             label_i == AsBool(label[i + 1])
             label_j == AsBool(label[j + 1])
         IN  SparseNeighbors(sample, label, i, nb, n + 1,
                 IF EdgeCounts(i, j, label_i, label_j)
                 THEN subtract_from_sparse_vect(psi, sample.edges[nb[n + 1].e].v)
                 ELSE psi)

RECURSIVE SparseNodes(_, _, _, _, _)
\* lines 281-301
SparseNodes(sample, label, i, psi, edims) ==
    IF i >= number_of_nodes(sample) THEN psi
    ELSE LET label_i == AsBool(label[i + 1])
             psi1 == IF label_i = TRUE
                     THEN add_to_sparse_vect(psi, sample.data[i + 1], edims)
                     ELSE psi
         IN  SparseNodes(sample, label, i + 1,
                 SparseNeighbors(sample, label, i, Neighbors(sample, i), 0, psi1),
                 edims)

\* lines 273-302: psi.clear(); then the loops
get_joint_feature_vector_sparse(sample, label, edims) ==
    SparseNodes(sample, label, 0, <<>>, edims)

\* The overload chosen by enable_if<is_matrix<psi_type>> (lines 217, 274).
get_joint_feature_vector(sample, label, edims, ndims, ismat) ==
    IF ismat THEN get_joint_feature_vector_dense(sample, label, edims, ndims)
    ELSE get_joint_feature_vector_sparse(sample, label, edims)

\* ------------------------------------------------------ separation_oracle

\* copy_graph_structure(samp, g): g gets samp's nodes and edges; the double
\* on each node and edge is not initialised.  writes[k] counts the
\* assignments made to edge k's weight; while it is 0 the weight is whatever
\* the allocation left there (see WithGarbage), and v only holds its place.
copy_graph_structure(samp) ==
    [n |-> samp.n,
     data |-> [i \in 1..samp.n |-> 0],
     edges |-> [k \in 1..Len(samp.edges) |->
                  [a |-> samp.edges[k].a, b |-> samp.edges[k].b, v |-> 0]],
     writes |-> [k \in 1..Len(samp.edges) |-> 0]]

\* Values an uninitialised double may hold.
Uninit == {-1, 0}

\* The garbage a reader of g can see: none when every edge weight has been
\* assigned (every node potential is, line 326).
GarbageOf(g) == IF \A k \in 1..Len(g.edges) : g.writes[k] > 0 THEN {0} ELSE Uninit

\* g as its reader finds it: the edge weights never assigned hold garbage.
WithGarbage(g, garbage) ==
    [g EXCEPT !.edges = [k \in 1..Len(g.edges) |->
                           IF g.writes[k] = 0 THEN [g.edges[k] EXCEPT !.v = garbage]
                           ELSE g.edges[k]]]

\* Variant of LossAugmentation: the two branches swapped.
LossAugmentationSwapped(label_i) == IF label_i THEN 1 ELSE -1

\* lines 331-335: the loss augmentation of node i's potential
LossAugmentation(label_i) == IF label_i THEN -1 ELSE 1

\* lines 326-327: dot of the node-weight block with the node's vector
NodeScore(w, d, edims, ismat) == dot(rowm(w, edims, Len(w) - 1), d, ismat)

\* lines 343-344: dot of the edge-weight block with the edge's vector
EdgeWeight(w, e, edims, ismat) == dot(rowm(w, 0, edims - 1), e, ismat)

\* line 341: "Don't compute an edge weight more than once."
EdgeIsMine(i, j) == i < j

RECURSIVE PottsNeighbors(_, _, _, _, _, _, _, _)
\* lines 337-346
PottsNeighbors(samp, i, nb, n, g, w, edims, ismat) ==
    IF n >= Len(nb) THEN g
    ELSE LET j == nb[n + 1].index
             k == nb[n + 1].e
         IN  PottsNeighbors(samp, i, nb, n + 1,
                 IF EdgeIsMine(i, j)
                 THEN [g EXCEPT !.edges[k].v = EdgeWeight(w, samp.edges[k].v, edims, ismat),
                                !.writes[k] = @ + 1]
                 ELSE g,
                 w, edims, ismat)

RECURSIVE PottsNodes(_, _, _, _, _, _, _)
\* lines 324-348
PottsNodes(samp, truth, i, g, w, edims, ismat) ==
    IF i >= g.n THEN g
    ELSE LET label_i == AsBool(truth[i + 1])
             g1 == [g EXCEPT !.data[i + 1] = NodeScore(w, samp.data[i + 1], edims, ismat)
                                             + LossAugmentation(label_i)]
         IN  PottsNodes(samp, truth, i + 1,
                 PottsNeighbors(samp, i, Neighbors(samp, i), 0, g1, w, edims, ismat),
                 w, edims, ismat)

\* lines 319-348: the potts graph for samples[idx] and current_solution
BuildPottsGraph(samp, truth, w, edims, ismat) ==
    PottsNodes(samp, truth, 0, copy_graph_structure(samp), w, edims, ismat)

\* The binary labelings of n nodes, as node_label values.
Labelings(n) == [1..n -> {0, 1}]

\* What find_max_factor_graph_potts maximises: the potentials of the nodes
\* labelled true plus the weights of the edges whose ends agree.
PottsScore(g, lab) ==
    SumSeq([i \in 1..g.n |-> IF AsBool(lab[i]) THEN g.data[i] ELSE 0])
    + SumSeq([k \in 1..Len(g.edges) |->
                IF AsBool(lab[g.edges[k].a + 1]) = AsBool(lab[g.edges[k].b + 1])
                THEN g.edges[k].v ELSE 0])

PottsMaximizers(g) ==
    LET score == [lab \in Labelings(g.n) |-> PottsScore(g, lab)]
        best == SetMax({score[lab] : lab \in Labelings(g.n)})
    IN  {lab \in Labelings(g.n) : score[lab] = best}

\* find_max_factor_graph_potts(g, labeling): a maximiser, always the same one
\* for the same g (how ties are broken is not specified).
find_max_factor_graph_potts(g) == CHOOSE lab \in PottsMaximizers(g) : TRUE

\* Variant of Mislabeled: the labels compared with == instead of !=.
MislabeledEqual(true_label, pred_label) == true_label = pred_label

\* line 360: a node counts when truth and prediction differ as booleans
Mislabeled(true_label, pred_label) == true_label # pred_label

RECURSIVE CountLoss(_, _, _, _)
\* lines 355-362
CountLoss(truth, labeling, i, loss) ==
    IF i >= Len(labeling) THEN loss
    ELSE CountLoss(truth, labeling, i + 1,
             IF Mislabeled(AsBool(truth[i + 1]), AsBool(labeling[i + 1]))
             THEN loss + 1 ELSE loss)

\* lines 312-366: everything separation_oracle computes
separation_oracle(samp, truth, w, edims, ndims, ismat, garbage) ==
    LET g == WithGarbage(BuildPottsGraph(samp, truth, w, edims, ismat), garbage)
        labeling == find_max_factor_graph_potts(g)
    IN  [g |-> g,
         labeling |-> labeling,
         loss |-> CountLoss(truth, labeling, 0, 0),
         psi |-> get_joint_feature_vector(samp, labeling, edims, ndims, ismat)]

\* ------------------------------------------------------ dataset families

DenseNodeVecsRich == {<<>>, <<1>>, <<1, 0>>, <<0, 1>>}
DenseEdgeVecsRich == {<<>>, <<1>>, <<-1>>, <<1, 1>>}
SparseNodeVecsRich == {<<>>, <<<<0, 1>>>>, <<<<1, 1>>>>, <<<<0, 1>>, <<0, 1>>>>}
SparseEdgeVecsRich == {<<>>, <<<<0, 1>>>>, <<<<0, -1>>>>, <<<<1, 1>>, <<0, 1>>>>}

DenseNodeVecsPlain == {<<1, 0>>, <<0, 1>>}
DenseEdgeVecsPlain == {<<1>>, <<-1>>, <<1, 1>>}
SparseNodeVecsPlain == {<<<<0, 1>>>>, <<<<1, 1>>, <<1, 1>>>>}
SparseEdgeVecsPlain == {<<<<0, 1>>>>, <<<<0, -1>>>>, <<<<1, 1>>, <<1, 1>>>>}

NodeVecs(ismat, rich) ==
    IF ismat THEN (IF rich THEN DenseNodeVecsRich ELSE DenseNodeVecsPlain)
    ELSE (IF rich THEN SparseNodeVecsRich ELSE SparseNodeVecsPlain)

EdgeVecs(ismat, rich) ==
    IF ismat THEN (IF rich THEN DenseEdgeVecsRich ELSE DenseEdgeVecsPlain)
    ELSE (IF rich THEN SparseEdgeVecsRich ELSE SparseEdgeVecsPlain)

\* Endpoint pairs a <= b over n nodes; a = b, a self-loop, only with loops.
PairsOf(n, loops) ==
    {p \in (0..(n - 1)) \X (0..(n - 1)) : p[1] < p[2] \/ (loops /\ p[1] = p[2])}

RECURSIVE SortPairs(_)
SortPairs(E) ==
    IF E = {} THEN <<>>
    ELSE LET m == CHOOSE p \in E : \A q \in E :
                      p[1] < q[1] \/ (p[1] = q[1] /\ p[2] <= q[2])
         IN  <<m>> \o SortPairs(E \ {m})

EdgeSeqs(n, EV, loops) ==
    UNION { LET sp == SortPairs(E) IN
            { [k \in 1..Len(sp) |-> [a |-> sp[k][1], b |-> sp[k][2], v |-> vs[k]]]
              : vs \in [1..Len(sp) -> EV] }
            : E \in {F \in SUBSET PairsOf(n, loops) :
                        Cardinality(F) <= (IF loops THEN MaxEdgesRich ELSE MaxEdges)} }

Graphs(n, NV, EV, loops) ==
    { [n |-> n, data |-> d, edges |-> es]
      : d \in [1..n -> NV], es \in EdgeSeqs(n, EV, loops) }

\* Label vectors offered for a graph of n nodes: one label per node, and in
\* the rich family also one label short.
LabelVecs(n, rich) ==
    UNION { [1..m -> 0..MaxLabel] : m \in {n} \cup (IF rich /\ n > 0 THEN {n - 1} ELSE {}) }

\* A sample paired with its label vector.
Pairs(n, NV, EV, rich) == Graphs(n, NV, EV, rich) \X LabelVecs(n, rich)

RECURSIVE PairSeqs(_, _, _, _, _)
\* Sequences of k (graph, labels) pairs with at least one node each and at
\* most budget nodes in total.
PairSeqs(k, budget, NV, EV, rich) ==
    IF k = 0 THEN {<<>>}
    ELSE UNION { { <<p>> \o rest : p \in Pairs(n, NV, EV, rich),
                                  rest \in PairSeqs(k - 1, budget - n, NV, EV, rich) }
                 : n \in 1..budget }

EmptyGraph == [n |-> 0, data |-> <<>>, edges |-> <<>>]

\* Datasets as [samples, labels]: k pairs for a k in ks, and in the rich
\* family also k samples with the last label vector missing, a graph of no
\* nodes, and no sample at all.
DatasetsOf(budget, ks, NV, EV, rich) ==
    LET full == UNION { PairSeqs(k, budget, NV, EV, rich) : k \in ks }
        split(ps) == [samples |-> [i \in 1..Len(ps) |-> ps[i][1]],
                      labels |-> [i \in 1..Len(ps) |-> ps[i][2]]]
    IN  { split(ps) : ps \in full }
        \cup (IF rich
              THEN { [samples |-> split(ps).samples,
                      labels |-> SubSeq(split(ps).labels, 1, Len(ps) - 1)]
                     : ps \in { q \in full :
                                  q[Len(q)][2] = [i \in 1..Len(q[Len(q)][2]) |-> 0] } }
                   \cup { [samples |-> <<>>, labels |-> <<>>],
                          [samples |-> <<EmptyGraph>>, labels |-> <<<<>>>>] }
              ELSE {})

\* The rich family: small graphs, every kind of malformed input (self-loops,
\* short or missing label vectors, empty and mismatched vectors).  The plain
\* family: one larger graph without self-loops, one label per node.
Datasets(ismat) ==
    DatasetsOf(MaxNodesRich, 1..MaxSamples,
               NodeVecs(ismat, TRUE), EdgeVecs(ismat, TRUE), TRUE)
    \cup DatasetsOf(MaxNodes, {1},
                    NodeVecs(ismat, FALSE), EdgeVecs(ismat, FALSE), FALSE)

\* ------------------------------------------------------------------ state

VARIABLES
    is_matrix,   \* is_matrix<graph_type::type>::value: dense (TRUE) or sparse
    samples,     \* the caller's graphs
    labels,      \* the caller's label vectors
    verdict,     \* what the caller's own is_graph_labeling_problem call returned
    phase,       \* "start", "constructed" (the object exists) or "aborted"
    node_dims,   \* member node_dims
    edge_dims,   \* member edge_dims
    scans,       \* how many times the constructor's dimension scan has run
    ret,         \* the last completed call: its arguments and its outputs
    current_solution,  \* the weight vector the worker threads are handed
    thr,         \* per worker thread: where its call stands, and its outputs
    gs           \* per worker thread: the graph g of its separation_oracle call

vars == <<is_matrix, samples, labels, verdict, phase, node_dims, edge_dims, scans, ret,
          current_solution, thr, gs>>

\* What the single-threaded caller's actions leave alone.
workerVars == <<current_solution, thr, gs>>

\* structural_svm_problem_threaded(num_threads), num_threads = 2 by default
NumThreads == 2

Threads == 1..NumThreads

IdleThread == [pc |-> "idle", op |-> "none", idx |-> 0,
               labeling |-> <<>>, loss |-> 0, psi |-> <<>>]

NoGraph == [n |-> 0, data |-> <<>>, edges |-> <<>>, writes |-> <<>>]

NoCall == [op |-> "none", idx |-> 0, w |-> <<>>, g |-> NoGraph,
           labeling |-> <<>>, loss |-> 0, psi |-> <<>>]

\* lines 203-208
get_num_dimensions == edge_dims + node_dims

\* lines 188-200
get_num_edge_weights == edge_dims

\* lines 210-214
get_num_samples == Len(samples)

\* Weight vectors the trainer produces: get_num_dimensions() entries, the
\* first get_num_edge_weights() of them kept non-negative.
Weights ==
    {w \in [1..get_num_dimensions -> (-MaxW)..MaxW] :
        \A k \in 1..get_num_edge_weights : w[k] >= 0}

Init ==
    /\ is_matrix = TRUE \/ is_matrix = FALSE
    /\ \E d \in Datasets(is_matrix) : samples = d.samples /\ labels = d.labels
    /\ verdict = "none"
    /\ phase = "start"
    /\ node_dims = 0
    /\ edge_dims = 0
    /\ scans = 0
    /\ ret = NoCall
    /\ current_solution = <<>>
    /\ thr = [t \in Threads |-> IdleThread]
    /\ gs = [t \in Threads |-> NoGraph]

\* The caller checks the dataset itself, before it constructs the problem.
Validate ==
    /\ phase = "start"
    /\ verdict = "none"
    /\ verdict' = IF is_graph_labeling_problem(samples, labels, is_matrix)
                  THEN "true" ELSE "false"
    /\ UNCHANGED <<is_matrix, samples, labels, phase, node_dims, edge_dims, scans, ret>>
    /\ UNCHANGED workerVars

\* Variant of Construct: the constructor without its DLIB_ASSERT.
ConstructUnchecked ==
    /\ phase = "start"
    /\ verdict # "none"
    /\ LET dims == InferDimensions(samples, is_matrix) IN
         /\ phase' = "constructed"
         /\ node_dims' = dims.node_dims
         /\ edge_dims' = dims.edge_dims
         /\ scans' = scans + 1
    /\ UNCHANGED <<is_matrix, samples, labels, verdict, ret>>
    /\ UNCHANGED workerVars

\* lines 157-186: the constructor.
Construct ==
    /\ phase = "start"
    /\ verdict # "none"
    /\ IF DLIB_ASSERT(is_graph_labeling_problem(samples, labels, is_matrix))
       THEN LET dims == InferDimensions(samples, is_matrix) IN
            /\ phase' = "constructed"
            /\ node_dims' = dims.node_dims
            /\ edge_dims' = dims.edge_dims
            /\ scans' = scans + 1
       ELSE /\ phase' = "aborted"
            /\ UNCHANGED <<node_dims, edge_dims, scans>>
    /\ UNCHANGED <<is_matrix, samples, labels, verdict, ret>>
    /\ UNCHANGED workerVars

\* lines 304-310: get_truth_joint_feature_vector(idx, psi)
TruthFeatureVector ==
    /\ phase = "constructed"
    /\ ret = NoCall
    /\ \E idx \in 0..(get_num_samples - 1) :
          ret' = [NoCall EXCEPT
                    !.op = "truth", !.idx = idx,
                    !.psi = get_joint_feature_vector(samples[idx + 1], labels[idx + 1],
                                                     edge_dims, node_dims, is_matrix)]
    /\ UNCHANGED <<is_matrix, samples, labels, verdict, phase, node_dims, edge_dims, scans>>
    /\ UNCHANGED workerVars

\* lines 312-366: separation_oracle(idx, current_solution, loss, psi)
SeparationOracle ==
    /\ phase = "constructed"
    /\ ret = NoCall
    /\ \E idx \in 0..(get_num_samples - 1), w \in Weights :
        \E garbage \in GarbageOf(BuildPottsGraph(samples[idx + 1], labels[idx + 1], w,
                                                 edge_dims, is_matrix)) :
          LET out == separation_oracle(samples[idx + 1], labels[idx + 1], w,
                                       edge_dims, node_dims, is_matrix, garbage)
          IN  ret' = [op |-> "oracle", idx |-> idx, w |-> w, g |-> out.g,
                      labeling |-> out.labeling, loss |-> out.loss, psi |-> out.psi]
    /\ UNCHANGED <<is_matrix, samples, labels, verdict, phase, node_dims, edge_dims, scans>>
    /\ UNCHANGED workerVars

\* The caller is done with the outputs of the last call.
Return ==
    /\ ret # NoCall
    /\ ret' = NoCall
    /\ UNCHANGED <<is_matrix, samples, labels, verdict, phase, node_dims, edge_dims, scans>>
    /\ UNCHANGED workerVars

Next == Validate \/ Construct \/ TruthFeatureVector \/ SeparationOracle \/ Return

Spec == Init /\ [][Next]_vars

\* ---------------------------------------------------------- worker threads

\* One sample per worker thread, from the rich family.
ThreadDatasets(ismat) ==
    DatasetsOf(MaxNodesRich, {NumThreads}, NodeVecs(ismat, TRUE), EdgeVecs(ismat, TRUE), TRUE)

\* The state after a successful construction, with the trainer's current
\* weight vector chosen.
InitThreads ==
    /\ is_matrix \in BOOLEAN
    /\ \E d \in ThreadDatasets(is_matrix) :
          /\ is_graph_labeling_problem(d.samples, d.labels, is_matrix)
          /\ samples = d.samples
          /\ labels = d.labels
    /\ verdict = "true"
    /\ phase = "constructed"
    /\ node_dims = InferDimensions(samples, is_matrix).node_dims
    /\ edge_dims = InferDimensions(samples, is_matrix).edge_dims
    /\ scans = 1
    /\ ret = NoCall
    /\ current_solution \in Weights
    /\ thr = [t \in Threads |-> IdleThread]
    /\ gs = [t \in Threads |-> NoGraph]

sharedVars == <<is_matrix, samples, labels, verdict, phase, node_dims, edge_dims, scans, ret,
                current_solution>>

\* Variant of GraphSlot: one graph shared by all threads (a static g).
GraphSlotShared(t) == 1

\* line 322: g is a local of the call, so each thread has its own.
GraphSlot(t) == t

\* Sample indices other threads are working on.
BusyIndices(t) == {thr[u].idx : u \in {v \in Threads \ {t} : thr[v].pc # "idle"}}

\* lines 304-310, called by worker thread t
ThreadTruth(t) ==
    /\ thr[t].pc = "idle"
    /\ \E idx \in (0..(get_num_samples - 1)) \ BusyIndices(t) :
          thr' = [thr EXCEPT ![t] =
                    [IdleThread EXCEPT
                       !.pc = "done", !.op = "truth", !.idx = idx,
                       !.psi = get_joint_feature_vector(samples[idx + 1], labels[idx + 1],
                                                        edge_dims, node_dims, is_matrix)]]
    /\ UNCHANGED <<sharedVars, gs>>

\* lines 319-348, called by worker thread t: g is set up
ThreadBuild(t) ==
    /\ thr[t].pc = "idle"
    /\ \E idx \in (0..(get_num_samples - 1)) \ BusyIndices(t) :
          LET g == BuildPottsGraph(samples[idx + 1], labels[idx + 1], current_solution,
                                   edge_dims, is_matrix)
          IN  \E garbage \in GarbageOf(g) :
                /\ thr' = [thr EXCEPT ![t] =
                             [IdleThread EXCEPT !.pc = "built", !.op = "oracle", !.idx = idx]]
                /\ gs' = [gs EXCEPT ![GraphSlot(t)] = WithGarbage(g, garbage)]
    /\ UNCHANGED sharedVars

\* lines 350-351
ThreadSolve(t) ==
    /\ thr[t].pc = "built"
    /\ thr' = [thr EXCEPT ![t].pc = "solved",
                           ![t].labeling = find_max_factor_graph_potts(gs[GraphSlot(t)])]
    /\ UNCHANGED <<sharedVars, gs>>

\* lines 354-365
ThreadFinish(t) ==
    /\ thr[t].pc = "solved"
    /\ thr' = [thr EXCEPT
                 ![t].pc = "done",
                 ![t].loss = CountLoss(labels[thr[t].idx + 1], thr[t].labeling, 0, 0),
                 ![t].psi = get_joint_feature_vector(samples[thr[t].idx + 1], thr[t].labeling,
                                                     edge_dims, node_dims, is_matrix)]
    /\ UNCHANGED <<sharedVars, gs>>

\* The call returns; its g is destroyed and the caller consumes the outputs.
ThreadReturn(t) ==
    /\ thr[t].pc = "done"
    /\ thr' = [thr EXCEPT ![t] = IdleThread]
    /\ gs' = IF thr[t].op = "oracle" THEN [gs EXCEPT ![GraphSlot(t)] = NoGraph] ELSE gs
    /\ UNCHANGED sharedVars

NextThreads ==
    \E t \in Threads :
        ThreadTruth(t) \/ ThreadBuild(t) \/ ThreadSolve(t) \/ ThreadFinish(t) \/ ThreadReturn(t)

SpecThreads == InitThreads /\ [][NextThreads]_vars

\* ------------------------------------------------------------ properties

\* All vectors on the nodes, and all vectors on the edges, of a dataset.
AllNodeVecs(samps) ==
    UNION { {samps[i].data[j] : j \in 1..samps[i].n} : i \in 1..Len(samps) }

AllEdgeVecs(samps) ==
    UNION { {samps[i].edges[k].v : k \in 1..Len(samps[i].edges)} : i \in 1..Len(samps) }

\* The values stored in a vector, and the feature indices it stores.
Entries(v, ismat) ==
    IF ismat THEN {v[k] : k \in 1..Len(v)} ELSE {v[k][2] : k \in 1..Len(v)}

Indices(v, ismat) ==
    IF ismat THEN 0..(Len(v) - 1) ELSE {v[k][1] : k \in 1..Len(v)}

\* The documented conditions of a valid graph labeling problem (lines 47-59).
DocumentedValid(samps, labs, ismat) ==
    /\ Len(samps) = Len(labs)
    /\ Len(samps) > 0
    /\ \A i \in 1..Len(samps) :
          /\ Len(labs[i]) = samps[i].n
          /\ \A k \in 1..Len(samps[i].edges) : samps[i].edges[k].a # samps[i].edges[k].b
    /\ \A e \in AllEdgeVecs(samps) : \A x \in Entries(e, ismat) : x >= 0
    /\ ismat =>
          /\ \A u, v \in AllNodeVecs(samps) : Len(u) = Len(v)
          /\ \A u, v \in AllEdgeVecs(samps) : Len(u) = Len(v)
          /\ \A v \in AllNodeVecs(samps) \cup AllEdgeVecs(samps) : Len(v) > 0

\* C1: is_graph_labeling_problem returns true exactly when the dataset is a
\* learning problem, every graph has one label per node, no graph has a
\* self-loop, no edge vector has a negative entry and, for matrices only, the
\* node vectors share one dimension, the edge vectors share one dimension
\* and every vector has more than 0 dimensions.
C1_ValidIffDocumented ==
    verdict # "none" =>
        ((verdict = "true") <=> DocumentedValid(samples, labels, is_matrix))

OnePlusMaxIndex(V, ismat) ==
    1 + SetMax({-1} \cup UNION {Indices(v, ismat) : v \in V})

\* C9: after construction node_dims is one plus the largest feature index
\* over all node vectors and edge_dims one plus the largest over all edge
\* vectors (0 when there is none; the common length for matrices);
\* get_num_dimensions is their sum and get_num_edge_weights is edge_dims.
C9_DimensionsAreMaxIndexPlusOne ==
    phase = "constructed" =>
        /\ node_dims = OnePlusMaxIndex(AllNodeVecs(samples), is_matrix)
        /\ edge_dims = OnePlusMaxIndex(AllEdgeVecs(samples), is_matrix)
        /\ is_matrix => \A v \in AllNodeVecs(samples) : Len(v) = node_dims
        /\ is_matrix => \A e \in AllEdgeVecs(samples) : Len(e) = edge_dims
        /\ AllEdgeVecs(samples) = {} => edge_dims = 0
        /\ get_num_dimensions = OnePlusMaxIndex(AllEdgeVecs(samples), is_matrix)
                                 + OnePlusMaxIndex(AllNodeVecs(samples), is_matrix)
        /\ get_num_edge_weights = OnePlusMaxIndex(AllEdgeVecs(samples), is_matrix)

\* A sparse problem was constructed whose node vectors, and whose edge
\* vectors, do not all reach the same largest index.
C9_Witness ==
    /\ phase = "constructed"
    /\ ~is_matrix
    /\ \E u, v \in AllNodeVecs(samples) :
          max_index_plus_one(u, FALSE) < max_index_plus_one(v, FALSE)
    /\ \E u, v \in AllEdgeVecs(samples) :
          max_index_plus_one(u, FALSE) < max_index_plus_one(v, FALSE)

\* --------------------------------------------- properties of the calls

\* The sample and the labeling the last call built psi from.
CallSample == samples[ret.idx + 1]
CallTruth == labels[ret.idx + 1]
CallLabeling == IF ret.op = "oracle" THEN ret.labeling ELSE CallTruth

\* Nodes labelled true, and edges whose two ends are labelled differently.
TrueNodes(samp, lab) == {i \in 1..samp.n : lab[i] # 0}
CutEdges(samp, lab) ==
    {k \in 1..Len(samp.edges) :
        (lab[samp.edges[k].a + 1] # 0) # (lab[samp.edges[k].b + 1] # 0)}

RECURSIVE SumSet(_, _)
\* Sum of f[x] over the finite set S.
SumSet(f, S) ==
    IF S = {} THEN 0 ELSE LET x == CHOOSE y \in S : TRUE IN f[x] + SumSet(f, S \ {x})

\* psi as documented: minus the cut edges' vectors in rows [0, edims), the
\* true nodes' vectors in rows [edims, edims + ndims).
DocumentedPsi(samp, lab, edims, ndims) ==
    [r \in 1..(edims + ndims) |->
        IF r <= edims
        THEN -SumSet([k \in 1..Len(samp.edges) |-> samp.edges[k].v[r]], CutEdges(samp, lab))
        ELSE SumSet([i \in 1..samp.n |-> samp.data[i][r - edims]], TrueNodes(samp, lab))]

\* The path 0-1-2 with node vectors [1,0] and edge vectors [1].
PathSample ==
    [n |-> 3, data |-> <<<<1, 0>>, <<1, 0>>, <<1, 0>>>>,
     edges |-> <<[a |-> 0, b |-> 1, v |-> <<1>>], [a |-> 1, b |-> 2, v |-> <<1>>]>>]

\* C2: the dense psi has edge_dims + node_dims rows, its node block is the
\* sum of the vectors of the nodes labelled true and its edge block is minus
\* the sum of the vectors of the edges whose ends are labelled differently,
\* each edge once; the path 0-1-2 labelled [true,true,false] gives [-1,2,0].
C2_DensePsiIsDocumented ==
    /\ (is_matrix /\ ret.op # "none") =>
          /\ Len(ret.psi) = edge_dims + node_dims
          /\ ret.psi = DocumentedPsi(CallSample, CallLabeling, edge_dims, node_dims)
    /\ (is_matrix /\ ret.op = "truth" /\ CallSample = PathSample /\ CallTruth = <<1, 1, 0>>)
          => ret.psi = <<-1, 2, 0>>

\* get_truth_joint_feature_vector has run on the labelled path.
C2_Witness ==
    /\ is_matrix
    /\ ret.op = "truth"
    /\ CallSample = PathSample
    /\ CallTruth = <<1, 1, 0>>
    /\ ret.psi = <<-1, 2, 0>>

\* psi . w, a sparse psi's repeated indices adding up.
Score(psi, w, ismat) == dot(w, psi, ismat)

\* How many nodes lab and truth label differently.
HammingLoss(lab, truth) == Cardinality({i \in 1..Len(truth) : (lab[i] # 0) # (truth[i] # 0)})

\* psi(y) . w + HammingLoss(y, truth)
LossAugmentedScore(samp, truth, y, w) ==
    Score(get_joint_feature_vector(samp, y, edge_dims, node_dims, is_matrix), w, is_matrix)
    + HammingLoss(y, truth)

\* C3: whatever maximiser of the potts objective on the auxiliary graph the
\* solver returns, the labeling separation_oracle returns has the largest
\* psi(y).w + HammingLoss(y, truth) of all binary labelings y of the sample.
C3_OracleMaximisesLossAugmentedScore ==
    ret.op = "oracle" =>
        LET las == [y \in Labelings(CallSample.n) |->
                       LossAugmentedScore(CallSample, CallTruth, y, ret.w)]
        IN  /\ ret.labeling \in PottsMaximizers(ret.g)
            /\ \A lab \in PottsMaximizers(ret.g) :
                  \A y \in Labelings(CallSample.n) : las[y] <= las[lab]

\* The oracle ran on a graph with two weighted edges and returned a labeling
\* that is neither the truth nor its complement and beats some labeling.
C3_Witness ==
    /\ ret.op = "oracle"
    /\ Len(ret.g.edges) = 2
    /\ \A k \in 1..2 : ret.g.edges[k].v > 0
    /\ 0 < ret.loss /\ ret.loss < CallSample.n
    /\ \E y \in Labelings(CallSample.n) :
          LossAugmentedScore(CallSample, CallTruth, y, ret.w)
          < LossAugmentedScore(CallSample, CallTruth, ret.labeling, ret.w)

\* The same vector in the other representation: a matrix as the pairs
\* (row, entry), a sparse vector as the matrix of dims rows whose row r is the
\* sum of the values stored under index r.
AsSparseVec(v) == [k \in 1..Len(v) |-> <<k - 1, v[k]>>]

AsDenseVec(v, dims) ==
    [r \in 1..dims |-> SumSeq([k \in 1..Len(v) |-> IF v[k][1] = r - 1 THEN v[k][2] ELSE 0])]

\* The same sample in the other representation.
OtherRepresentation(samp, ismat, edims, ndims) ==
    [n |-> samp.n,
     data |-> [i \in 1..samp.n |->
                 IF ismat THEN AsSparseVec(samp.data[i]) ELSE AsDenseVec(samp.data[i], ndims)],
     edges |-> [k \in 1..Len(samp.edges) |->
                  [a |-> samp.edges[k].a, b |-> samp.edges[k].b,
                   v |-> IF ismat THEN AsSparseVec(samp.edges[k].v)
                         ELSE AsDenseVec(samp.edges[k].v, edims)]]]

\* Every vector of length dims with entries in -MaxW..MaxW.
AllWeights(dims) == [1..dims -> (-MaxW)..MaxW]

\* C7: the psi a call built and the psi the other builder makes of the same
\* sample (in the other representation) and labeling have equal inner
\* products with every weight vector of edge_dims + node_dims entries.  (A
\* sparse sample is compared when its matrix form is one matrices allow:
\* with edges, edge_dims > 0.)
C7_DenseAndSparsePsiAgree ==
    (/\ ret.op # "none"
     /\ is_matrix \/ edge_dims > 0 \/ Len(CallSample.edges) = 0)
    => LET other == OtherRepresentation(CallSample, is_matrix, edge_dims, node_dims)
           psi2 == get_joint_feature_vector(other, CallLabeling, edge_dims, node_dims,
                                            ~is_matrix)
       IN  \A w \in AllWeights(edge_dims + node_dims) :
               Score(ret.psi, w, is_matrix) = Score(psi2, w, ~is_matrix)

\* A sparse psi was built that stores an index twice and holds a cut edge.
C7_Witness ==
    /\ ret.op # "none"
    /\ ~is_matrix
    /\ CutEdges(CallSample, CallLabeling) # {}
    /\ TrueNodes(CallSample, CallLabeling) # {}
    /\ \E k, m \in 1..Len(ret.psi) : k < m /\ ret.psi[k][1] = ret.psi[m][1]
    /\ \E w \in AllWeights(edge_dims + node_dims) : Score(ret.psi, w, FALSE) < 0

\* C4: the loss separation_oracle returns is the number of nodes whose
\* returned label differs from the truth label as a boolean: between 0 and
\* the node count, and 0 exactly when the two labelings agree on every node.
C4_LossIsHammingDistance ==
    ret.op = "oracle" =>
        /\ ret.loss = HammingLoss(ret.labeling, CallTruth)
        /\ 0 <= ret.loss /\ ret.loss <= CallSample.n
        /\ (ret.loss = 0) <=>
               \A i \in 1..CallSample.n : (ret.labeling[i] # 0) = (CallTruth[i] # 0)

\* The oracle returned a labeling wrong on some nodes and right on others.
C4_Witness ==
    /\ ret.op = "oracle"
    /\ CallSample.n = 3
    /\ ret.loss = 2

\* C10: every edge weight separation_oracle puts on the auxiliary graph is
\* >= 0, and every edge is given its weight exactly once.
C10_EdgeWeightsNonNegative ==
    ret.op = "oracle" =>
        \A k \in 1..Len(ret.g.edges) :
            /\ ret.g.edges[k].v >= 0
            /\ ret.g.writes[k] = 1
            /\ ret.g.edges[k].v
                 = Score(CallSample.edges[k].v, rowm(ret.w, 0, edge_dims - 1), is_matrix)

\* The oracle ran on a graph with two edges, one of positive weight.
C10_Witness ==
    /\ ret.op = "oracle"
    /\ Len(ret.g.edges) = 2
    /\ ret.g.writes = <<1, 1>>
    /\ \E k \in 1..2 : ret.g.edges[k].v > 0

\* ---------------------------------------- properties of the worker threads

\* What the call of thread t returns when it runs alone.
Alone(t) ==
    separation_oracle(samples[thr[t].idx + 1], labels[thr[t].idx + 1], current_solution,
                      edge_dims, node_dims, is_matrix, 0)

\* The outputs of every completed call are those of the call run alone, and
\* the shared members hold their post-construction values.
C6_ResultsAsAlone ==
    /\ node_dims = InferDimensions(samples, is_matrix).node_dims
    /\ edge_dims = InferDimensions(samples, is_matrix).edge_dims
    /\ \A t \in Threads :
          thr[t].pc = "done" =>
             IF thr[t].op = "oracle"
             THEN /\ thr[t].loss = Alone(t).loss
                  /\ Score(thr[t].psi, current_solution, is_matrix)
                       = Score(Alone(t).psi, current_solution, is_matrix)
             ELSE thr[t].psi = get_joint_feature_vector(samples[thr[t].idx + 1],
                                   labels[thr[t].idx + 1], edge_dims, node_dims, is_matrix)

\* A step leaves samples, labels, node_dims and edge_dims alone, changes the
\* outputs of one thread at most, and changes a graph g only together with
\* the state of the thread that owns it.
C6_StepWritesOwnOutputs ==
    /\ samples' = samples
    /\ labels' = labels
    /\ node_dims' = node_dims
    /\ edge_dims' = edge_dims
    /\ \A t, u \in Threads : (thr'[t] # thr[t] /\ thr'[u] # thr[u]) => t = u
    /\ \A t \in Threads : gs'[t] # gs[t] => thr'[t] # thr[t]

\* C6: under every interleaving of get_truth_joint_feature_vector and
\* separation_oracle calls by the worker threads on distinct sample indices,
\* no call writes samples, labels, node_dims or edge_dims, each call writes
\* only its own outputs, and each call returns the loss and psi.w it returns
\* when run alone.
C6_CallsDoNotInterfere == [](C6_ResultsAsAlone) /\ [][C6_StepWritesOwnOutputs]_vars

\* Two oracle calls overlapped: thread 2 set up its graph while thread 1 was
\* between setting up its own and solving it, and thread 1 has now returned
\* a labeling that is wrong on its node.
C6_Witness ==
    /\ thr[1].pc = "done" /\ thr[1].op = "oracle"
    /\ thr[2].pc \in {"built", "solved", "done"} /\ thr[2].op = "oracle"
    /\ thr[1].idx # thr[2].idx
    /\ gs[1] # gs[2]
    /\ thr[1].loss > 0

====
